---- MODULE Spec2Model ----
(***************************************************************************)
(* Model of spotter (src/main.rs): one ingestion loop that reads the feed  *)
(* line by line and applies every decoded frame to the shared Airplanes    *)
(* registry, and the axum request handlers that read the registry, all     *)
(* serialised by one tokio Mutex.                                          *)
(*                                                                         *)
(* The registry operations (Airplanes::action, prune, aircraft_details),   *)
(* the frame decoder (Frame::from_bytes) and ICAO::from_str are library    *)
(* code that main.rs only calls; they are modelled from the specification. *)
(***************************************************************************)
EXTENDS Integers, Sequences, FiniteSets, TLC

\* ------------------------------------------------------------------ bounds
NumIcaos == 2          \* addresses the feed reports on: 1..NumIcaos
NumHandlers == 2       \* concurrent request handlers
MaxVal == 2            \* values a report field can carry: 1..MaxVal
MaxTicks == 3          \* clock ticks before the clock stops
TickSecs == 60         \* seconds per clock tick
ObserverPos == 2       \* args.lat / args.long, fixed for the process

\* ------------------------------------------------------- program constants
PruneSecs == 120       \* a.prune(120)
HttpOk == 200          \* status of a Json(..) response

None == -1             \* Option::None of a numeric field
Ingest == 0            \* the ingestion loop (the main task)
Handlers == 1..NumHandlers
Icaos == 1..NumIcaos
Vals == 1..MaxVal

VARIABLES airplanes, now, ipc, input, frame, holders, hpc, resp,
          closed,    \* the feed has reached end of stream
          evicted    \* history: addresses swept out and not reported since

vars == <<airplanes, now, ipc, input, frame, holders, hpc, resp, closed, evicted>>

\* ------------------------------------------------------------ feed lines
\* A line is the sequence of bytes read_line appended to `input`, newline
\* included.  "LF" is the newline, "xC3" "xA9" the two bytes of one
\* non-ASCII character.
HexDigits == <<"0", "1", "2", "3", "4", "5", "6", "7",
               "8", "9", "a", "b", "c", "d", "e", "f">>

IsHexDigit(c) == \E i \in 1..16 : HexDigits[i] = c

HexVal(c) == (CHOOSE i \in 1..16 : HexDigits[i] = c) - 1

\* String::from_utf8 as read_line applies it: a lead byte is followed by its
\* continuation byte, a continuation byte never stands alone.
ValidUtf8(s) ==
    \A i \in 1..Len(s) :
        /\ s[i] = "xC3" => (i < Len(s) /\ s[i + 1] = "xA9")
        /\ s[i] = "xA9" => (i > 1 /\ s[i - 1] = "xC3")

\* str::is_char_boundary(i), i a byte offset
IsCharBoundary(s, i) ==
    \/ i = 0
    \/ i = Len(s)
    \/ (i < Len(s) /\ s[i + 1] # "xA9")

\* &input[1..len - 2]: usize subtraction and the str slice both panic
SlicePanics(s) ==
    \/ Len(s) < 2                         \* len - 2 underflows
    \/ 1 > Len(s) - 2                     \* slice start after its end
    \/ ~IsCharBoundary(s, 1)
    \/ ~IsCharBoundary(s, Len(s) - 2)

StripFraming(s) == SubSeq(s, 2, Len(s) - 2)

\* hex::decode: Err on odd length or a non-hex character
HexDecodable(h) ==
    /\ Len(h) % 2 = 0
    /\ \A i \in 1..Len(h) : IsHexDigit(h[i])

HexDecode(h) ==
    [i \in 1..(Len(h) \div 2) |-> 16 * HexVal(h[2 * i - 1]) + HexVal(h[2 * i])]

AllZero(bytes) == \A i \in 1..Len(bytes) : bytes[i] = 0

\* Frame::from_bytes: two bytes, kind and address in the first, the value in
\* the second; everything else is rejected.
NoFrame == [kind |-> "none", icao |-> 0, val |-> 0]

Kinds == <<"identification", "position", "velocity">>

FrameDecodable(bytes) ==
    /\ Len(bytes) = 2
    /\ (bytes[1] \div 16) \in 1..3
    /\ (bytes[1] % 16) \in Icaos
    /\ bytes[2] \in Vals

FrameFromBytes(bytes) ==
    [kind |-> Kinds[bytes[1] \div 16], icao |-> bytes[1] % 16, val |-> bytes[2]]

FrameLine(k, i, v) ==
    <<"*", HexDigits[k + 1], HexDigits[i + 1], "0", HexDigits[v + 1], ";", "LF">>

GoodLines == {FrameLine(k, i, v) : k \in 1..3, i \in Icaos, v \in Vals}

BadLines ==
    { <<>>,                                   \* read_line returned 0
      <<"LF">>,                               \* 1 byte
      <<"*", "LF">>,                          \* 2 bytes
      <<"*", ";", "LF">>,                     \* empty payload
      <<"*", "z", "z", ";", "LF">>,           \* not hex
      <<"*", "1", ";", "LF">>,                \* odd number of hex digits
      <<"*", "0", "0", "0", "0", ";", "LF">>, \* all-zero payload
      <<"*", "4", "1", "0", "1", ";", "LF">>, \* frame the decoder rejects
      <<"xC3", "xA9", ";", "LF">>,            \* first character is 2 bytes
      <<"xA9", "LF">> }                       \* not UTF-8: read_line is Err

\* the feed of the ingestion runs: every report for the first airplane, one
\* position report for each of the others, and the lines that carry none
FeedLines ==
    {FrameLine(k, 1, v) : k \in 1..3, v \in Vals}
        \cup {FrameLine(2, i, 1) : i \in Icaos}
        \cup BadLines

LineOutcome_UnwrapHex(s) ==
    IF ~ValidUtf8(s) THEN "skip"
    ELSE IF Len(s) = 0 THEN "skip"
    ELSE IF SlicePanics(s) THEN "panic"
    ELSE IF ~HexDecodable(StripFraming(s)) THEN "panic"
    ELSE IF AllZero(HexDecode(StripFraming(s))) THEN "skip"
    ELSE IF ~FrameDecodable(HexDecode(StripFraming(s))) THEN "skip"
    ELSE "frame"

LineOutcome_NoEofCheck(s) ==
    IF ~ValidUtf8(s) THEN "skip"
    ELSE IF SlicePanics(s) THEN "panic"
    ELSE IF ~HexDecodable(StripFraming(s)) THEN "skip"
    ELSE IF AllZero(HexDecode(StripFraming(s))) THEN "skip"
    ELSE IF ~FrameDecodable(HexDecode(StripFraming(s))) THEN "skip"
    ELSE "frame"

\* What one pass of the loop body does with a line, up to the lock.
LineOutcome(s) ==
    IF ~ValidUtf8(s) THEN "skip"              \* read_line returned Err
    ELSE IF Len(s) = 0 THEN "skip"
    ELSE IF SlicePanics(s) THEN "panic"
    ELSE IF ~HexDecodable(StripFraming(s)) THEN "skip"
    ELSE IF AllZero(HexDecode(StripFraming(s))) THEN "skip"
    ELSE IF ~FrameDecodable(HexDecode(StripFraming(s))) THEN "skip"
    ELSE "frame"

\* ------------------------------------------------------------- registry
NewState_Default(t) ==
    [callsign |-> None, position |-> 1, speed |-> None,
     kilo_distance |-> None, last_time |-> t]

\* rsadsb_common::Airplanes: a map from ICAO to AirplaneState.
NewState(t) ==
    [callsign |-> None, position |-> None, speed |-> None,
     kilo_distance |-> None, last_time |-> t]

EntryOrInsert(a, icao, t) ==
    IF icao \in DOMAIN a THEN a
    ELSE [k \in DOMAIN a \cup {icao} |-> IF k = icao THEN NewState(t) ELSE a[k]]

MergeFields_Replace(e, f) ==
    CASE f.kind = "identification" ->
            [NewState(e.last_time) EXCEPT !.callsign = f.val]
      [] f.kind = "position" ->
            [NewState(e.last_time) EXCEPT !.position = f.val]
      [] f.kind = "velocity" ->
            [NewState(e.last_time) EXCEPT !.speed = f.val]

\* only the field the report carries is written
MergeFields(e, f) ==
    CASE f.kind = "identification" -> [e EXCEPT !.callsign = f.val]
      [] f.kind = "position"       -> [e EXCEPT !.position = f.val]
      [] f.kind = "velocity"       -> [e EXCEPT !.speed = f.val]

Abs(x) == IF x < 0 THEN -x ELSE x

KiloDistance(position, lat_long) == 100 * Abs(position - lat_long)

Refresh_KeepDistance(e, lat_long, t) == [e EXCEPT !.last_time = t]

Refresh_StaleTime(e, lat_long, t) ==
    [e EXCEPT !.kilo_distance = IF e.position = None THEN None
                                ELSE KiloDistance(e.position, lat_long)]

\* distance follows the position, last_time is refreshed
Refresh(e, lat_long, t) ==
    [e EXCEPT !.kilo_distance = IF e.position = None THEN None
                                ELSE KiloDistance(e.position, lat_long),
              !.last_time = t]

Prune_Strict(a, filter_time, t) ==
    [k \in {j \in DOMAIN a : t - a[j].last_time < filter_time} |-> a[k]]

\* Airplanes::prune: drop every entry older than filter_time seconds
Prune(a, filter_time, t) ==
    [k \in {j \in DOMAIN a : t - a[j].last_time <= filter_time} |-> a[k]]

\* Airplanes::aircraft_details: <<>> is Option::None
AircraftDetails(a, icao) ==
    IF icao \in DOMAIN a THEN <<a[icao]>> ELSE <<>>

\* ---------------------------------------------------------- identifiers
IcaoLen == 2           \* hex digits of an address in a request path

WellFormed(id) ==
    /\ Len(id) = IcaoLen
    /\ \A i \in 1..Len(id) : IsHexDigit(id[i])

RECURSIVE FromStrRadix16(_)
FromStrRadix16(id) ==
    IF Len(id) = 0 THEN 0
    ELSE 16 * FromStrRadix16(SubSeq(id, 1, Len(id) - 1)) + HexVal(id[Len(id)])

\* ICAO::from_str: Ok(address) or Err
FromStrIsOk(id) == WellFormed(id)

FromStr(id) == FromStrRadix16(id)

\* the address i written as a request path segment
HexId(i) == [j \in 1..IcaoLen |-> IF j = IcaoLen THEN HexDigits[i + 1] ELSE "0"]

ReqIds ==
    { HexId(1), HexId(15),                            \* well formed
      [j \in 1..IcaoLen |-> "z"],                     \* not hex
      <<"1">> }                                       \* too short

\* ---------------------------------------------------- selection handlers
\* every order a.iter() can yield the keys in
IterOrders(a) ==
    {o \in [1..Cardinality(DOMAIN a) -> DOMAIN a] :
        \A i, j \in 1..Cardinality(DOMAIN a) : o[i] = o[j] => i = j}

ClosestBetter_Flipped(kilo_distance, inner) == kilo_distance > inner

\* Some(kilo_distance) < inner_minimum.1.coords.kilo_distance
ClosestBetter(kilo_distance, inner) == kilo_distance < inner

FurthestBetter_Flipped(kilo_distance, inner) == kilo_distance < inner

\* Some(kilo_distance) > inner_minimum.1.coords.kilo_distance
FurthestBetter(kilo_distance, inner) == kilo_distance > inner

\* one pass of the for loop; minimum is <<>> (None) or <<icao, state>>
ClosestStep(a, icao, minimum) ==
    IF a[icao].kilo_distance = None THEN minimum
    ELSE LET m1 == IF minimum = <<>> THEN <<icao, a[icao]>> ELSE minimum
         IN  IF ClosestBetter(a[icao].kilo_distance, m1[2].kilo_distance)
             THEN <<icao, a[icao]>> ELSE m1

FurthestStep(a, icao, minimum) ==
    IF a[icao].kilo_distance = None THEN minimum
    ELSE LET m1 == IF minimum = <<>> THEN <<icao, a[icao]>> ELSE minimum
         IN  IF FurthestBetter(a[icao].kilo_distance, m1[2].kilo_distance)
             THEN <<icao, a[icao]>> ELSE m1

RECURSIVE ClosestLoop(_, _, _, _)
ClosestLoop(a, order, i, minimum) ==
    IF i > Len(order) THEN minimum
    ELSE ClosestLoop(a, order, i + 1, ClosestStep(a, order[i], minimum))

RECURSIVE FurthestLoop(_, _, _, _)
FurthestLoop(a, order, i, minimum) ==
    IF i > Len(order) THEN minimum
    ELSE FurthestLoop(a, order, i + 1, FurthestStep(a, order[i], minimum))

\* -------------------------------------------------------------- actions
NoResp == [op |-> "none", arg |-> <<>>, status |-> 0, body |-> <<>>]

Init ==
    /\ airplanes = <<>>
    /\ now = 0
    /\ ipc = "connect"
    /\ input = <<>>
    /\ frame = NoFrame
    /\ holders = {}
    /\ hpc = [h \in Handlers |-> "wait"]
    /\ resp = [h \in Handlers |-> NoResp]
    /\ closed = FALSE
    /\ evicted = {}

ProcessAlive_ServerSurvives == TRUE

\* the process is gone once main has panicked
ProcessAlive == ipc \notin {"connect_failed", "panicked"}

CanLock_NoMutex(held) == TRUE

CanLock_SharedReaders(held) == Ingest \notin held

\* Mutex::lock().await completes only when nobody holds the guard
CanLock(held) == held = {}

\* the wall clock; it advances while the loop is suspended on the socket or
\* on the lock
Tick ==
    /\ ipc \in {"read", "lock"}
    /\ now < MaxTicks * TickSecs
    /\ now' = now + TickSecs
    /\ UNCHANGED <<airplanes, ipc, input, frame, holders, hpc, resp, closed, evicted>>

\* TcpStream::connect(..).await.unwrap()
Connect ==
    /\ ipc = "connect"
    /\ \E ok \in BOOLEAN : ipc' = IF ok THEN "read" ELSE "connect_failed"
    /\ UNCHANGED <<airplanes, now, input, frame, holders, hpc, resp, closed, evicted>>

\* the peer closes the connection: from now on read_line returns Ok(0)
FeedClose ==
    /\ ipc = "read"
    /\ ~closed
    /\ closed' = TRUE
    /\ UNCHANGED <<airplanes, now, ipc, input, frame, holders, hpc, resp, evicted>>

\* input.clear(); stream.read_line(&mut input).await
ReadLine(lines) ==
    /\ ipc = "read"
    /\ \E s \in (IF closed THEN {<<>>} ELSE lines) : input' = s
    /\ ipc' = "parse"
    /\ UNCHANGED <<airplanes, now, frame, holders, hpc, resp, closed, evicted>>

ProcessLine_SweepsOnSkip ==
    /\ ipc = "parse"
    /\ CASE LineOutcome(input) = "skip" ->
               /\ ipc' = "read" /\ frame' = frame /\ input' = <<>>
               /\ airplanes' = Prune(airplanes, PruneSecs, now)
         [] LineOutcome(input) = "panic" ->
               /\ ipc' = "panicked" /\ frame' = frame /\ input' = input
               /\ airplanes' = airplanes
         [] LineOutcome(input) = "frame" ->
               /\ ipc' = "lock"
               /\ frame' = FrameFromBytes(HexDecode(StripFraming(input)))
               /\ input' = input
               /\ airplanes' = airplanes
    /\ UNCHANGED <<now, holders, hpc, resp, closed, evicted>>

\* the loop body up to the lock; a skipped line takes the loop back to its
\* top, where input is cleared
ProcessLine ==
    /\ ipc = "parse"
    /\ CASE LineOutcome(input) = "skip" ->
               ipc' = "read" /\ frame' = frame /\ input' = <<>>
         [] LineOutcome(input) = "panic" ->
               ipc' = "panicked" /\ frame' = frame /\ input' = input
         [] LineOutcome(input) = "frame" ->
               /\ ipc' = "lock"
               /\ frame' = FrameFromBytes(HexDecode(StripFraming(input)))
               /\ input' = input
    /\ UNCHANGED <<airplanes, now, holders, hpc, resp, closed, evicted>>

\* let mut a = adsb_airplanes.lock().await
IngestLock ==
    /\ ipc = "lock"
    /\ CanLock(holders)
    /\ holders' = holders \cup {Ingest}
    /\ ipc' = "action"
    /\ UNCHANGED <<airplanes, now, input, frame, hpc, resp, closed, evicted>>

\* a.action(frame, (args.lat, args.long), 500.0), first half: find or create
\* the entry and write the fields the frame carries
ActionMerge ==
    /\ ipc = "action"
    /\ airplanes' = LET a == EntryOrInsert(airplanes, frame.icao, now)
                    IN  [a EXCEPT ![frame.icao] = MergeFields(@, frame)]
    /\ evicted' = evicted \ {frame.icao}
    /\ ipc' = "action_refresh"
    /\ UNCHANGED <<now, input, frame, holders, hpc, resp, closed>>

ActionLatLong_Other == ObserverPos + 1

\* (args.lat, args.long), the observer handed to a.action
ActionLatLong == ObserverPos

ActionRefresh_Unlocks ==
    /\ ipc = "action_refresh"
    /\ airplanes' = [airplanes EXCEPT ![frame.icao] = Refresh(@, ActionLatLong, now)]
    /\ holders' = holders \ {Ingest}
    /\ ipc' = "prune"
    /\ UNCHANGED <<now, input, frame, hpc, resp, closed, evicted>>

\* a.action(..), second half: distance and last_time
ActionRefresh ==
    /\ ipc = "action_refresh"
    /\ airplanes' = [airplanes EXCEPT ![frame.icao] = Refresh(@, ActionLatLong, now)]
    /\ ipc' = "prune"
    /\ UNCHANGED <<now, input, frame, holders, hpc, resp, closed, evicted>>

PruneStep_NoSweep ==
    /\ ipc = "prune"
    /\ holders' = holders \ {Ingest}
    /\ frame' = NoFrame
    /\ input' = <<>>
    /\ ipc' = "read"
    /\ UNCHANGED <<airplanes, now, hpc, resp, closed, evicted>>

\* a.prune(120); the guard is dropped at the end of the block
PruneStep ==
    /\ ipc = "prune"
    /\ airplanes' = Prune(airplanes, PruneSecs, now)
    /\ evicted' = evicted \cup (DOMAIN airplanes \ DOMAIN airplanes')
    /\ holders' = holders \ {Ingest}
    /\ frame' = NoFrame
    /\ input' = <<>>
    /\ ipc' = "read"
    /\ UNCHANGED <<now, hpc, resp, closed>>

\* a handler serves one request after the other; it starts each by
\* let a = adsb_airplanes.lock().await
Acquire(h) ==
    /\ ProcessAlive
    /\ hpc[h] = "wait"
    /\ CanLock(holders)
    /\ holders' = holders \cup {h}
    /\ hpc' = [hpc EXCEPT ![h] = "locked"]
    /\ UNCHANGED <<airplanes, now, ipc, input, frame, resp, closed, evicted>>

Respond(h, op, arg, body) ==
    /\ hpc' = [hpc EXCEPT ![h] = "responded"]
    /\ resp' = [resp EXCEPT ![h] =
                  [op |-> op, arg |-> arg, status |-> HttpOk, body |-> body]]
    /\ UNCHANGED <<airplanes, now, ipc, input, frame, holders, closed, evicted>>

\* home: the body carries a.len()
Home(h) ==
    /\ ProcessAlive
    /\ hpc[h] = "locked"
    /\ Respond(h, "home", <<>>, Cardinality(DOMAIN airplanes))

AirplanesAll_Take(h) ==
    /\ ProcessAlive
    /\ hpc[h] = "locked"
    /\ hpc' = [hpc EXCEPT ![h] = "responded"]
    /\ resp' = [resp EXCEPT ![h] =
                  [op |-> "airplanes", arg |-> <<>>, status |-> HttpOk,
                   body |-> airplanes]]
    /\ airplanes' = <<>>
    /\ UNCHANGED <<now, ipc, input, frame, holders, closed, evicted>>

\* airplanes_all: Json(a.clone())
AirplanesAll(h) ==
    /\ ProcessAlive
    /\ hpc[h] = "locked"
    /\ Respond(h, "airplanes", <<>>, airplanes)

ClosestAirplane(h) ==
    /\ ProcessAlive
    /\ hpc[h] = "locked"
    /\ \E order \in IterOrders(airplanes) :
          Respond(h, "closest", <<>>, ClosestLoop(airplanes, order, 1, <<>>))

FurthestAirplane(h) ==
    /\ ProcessAlive
    /\ hpc[h] = "locked"
    /\ \E order \in IterOrders(airplanes) :
          Respond(h, "furthest", <<>>, FurthestLoop(airplanes, order, 1, <<>>))

\* airplane_icao: ICAO::from_str(&icao).unwrap() panics on Err; unwinding
\* drops the guard and the connection gets no response
AirplaneIcao(h) ==
    /\ ProcessAlive
    /\ hpc[h] = "locked"
    /\ \E id \in ReqIds :
          IF FromStrIsOk(id)
          THEN Respond(h, "icao", id, AircraftDetails(airplanes, FromStr(id)))
          ELSE /\ hpc' = [hpc EXCEPT ![h] = "panicked"]
               /\ holders' = holders \ {h}
               /\ resp' = [resp EXCEPT ![h] =
                             [op |-> "icao", arg |-> id, status |-> 0, body |-> <<>>]]
               /\ UNCHANGED <<airplanes, now, ipc, input, frame, closed, evicted>>

\* the handler returns: the guard is dropped and the response is sent; the
\* next request waits for the lock
Release(h) ==
    /\ ProcessAlive
    /\ hpc[h] = "responded"
    /\ holders' = holders \ {h}
    /\ hpc' = [hpc EXCEPT ![h] = "wait"]
    /\ resp' = [resp EXCEPT ![h] = NoResp]
    /\ UNCHANGED <<airplanes, now, ipc, input, frame, closed, evicted>>

\* the panicked handler task is gone; the server takes the next request
Aborted(h) ==
    /\ ProcessAlive
    /\ hpc[h] = "panicked"
    /\ hpc' = [hpc EXCEPT ![h] = "wait"]
    /\ resp' = [resp EXCEPT ![h] = NoResp]
    /\ UNCHANGED <<airplanes, now, ipc, input, frame, holders, closed, evicted>>

\* the ingestion loop alone, with the clock
NextIngest ==
    \/ Tick
    \/ Connect
    \/ FeedClose
    \/ ReadLine(FeedLines)
    \/ ProcessLine
    \/ IngestLock
    \/ ActionMerge
    \/ ActionRefresh
    \/ PruneStep

SpecIngest == Init /\ [][NextIngest]_vars

\* the feed of the runs with request handlers: position reports for every
\* airplane, an identification for the first, and a line that is skipped
QueryLines ==
    {FrameLine(2, i, v) : i \in Icaos, v \in Vals}
        \cup {FrameLine(1, 1, 1), <<"*", "z", "z", ";", "LF">>}

\* the ingestion loop and the request handlers
Next ==
    \/ Connect
    \/ ReadLine(QueryLines)
    \/ ProcessLine
    \/ IngestLock
    \/ ActionMerge
    \/ ActionRefresh
    \/ PruneStep
    \/ \E h \in Handlers : Acquire(h)
    \/ \E h \in Handlers : Home(h)
    \/ \E h \in Handlers : AirplanesAll(h)
    \/ \E h \in Handlers : ClosestAirplane(h)
    \/ \E h \in Handlers : FurthestAirplane(h)
    \/ \E h \in Handlers : AirplaneIcao(h)
    \/ \E h \in Handlers : Release(h)
    \/ \E h \in Handlers : Aborted(h)

Spec == Init /\ [][Next]_vars

\* --------------------------------------------------------------- claims
ClientError == 400..499

Defined(a) == {k \in DOMAIN a : a[k].kilo_distance # None}

Fields == {"callsign", "position", "speed"}

FieldOf(kind) ==
    CASE kind = "identification" -> "callsign"
      [] kind = "position"       -> "position"
      [] kind = "velocity"       -> "speed"

\* C1: a lookup whose identifier is not a well-formed hex address is answered
\* with a client error, and the handler never panics.
C1_MalformedIsInvalidInput ==
    \A h \in Handlers :
        (resp[h].op = "icao" /\ ~WellFormed(resp[h].arg)) =>
            (hpc[h] = "responded" /\ resp[h].status \in ClientError)

\* C2: whatever line the feed delivers, the ingestion loop goes on to read
\* the next line; it never panics.
C2_LoopNeverStops == ipc # "panicked"

\* C3: the answer of closest is none exactly when no airplane has a distance;
\* otherwise it is an airplane of the registry whose distance is defined and
\* no larger than any other defined distance.
C3_Nearest ==
    \A h \in Handlers :
        (hpc[h] = "responded" /\ resp[h].op = "closest") =>
            LET b == resp[h].body
            IN  /\ (b = <<>>) <=> (Defined(airplanes) = {})
                /\ b # <<>> =>
                      /\ b[1] \in Defined(airplanes)
                      /\ b[2] = airplanes[b[1]]
                      /\ \A k \in Defined(airplanes) :
                            b[2].kilo_distance <= airplanes[k].kilo_distance

C3_Witness ==
    \E h \in Handlers :
        /\ hpc[h] = "responded"
        /\ resp[h].op = "closest"
        /\ resp[h].body # <<>>
        /\ \E k \in Defined(airplanes) :
              airplanes[k].kilo_distance > resp[h].body[2].kilo_distance

\* C4: the answer of furthest is none exactly when no airplane has a
\* distance; otherwise it is an airplane of the registry whose distance is
\* defined and no smaller than any other defined distance.
C4_Farthest ==
    \A h \in Handlers :
        (hpc[h] = "responded" /\ resp[h].op = "furthest") =>
            LET b == resp[h].body
            IN  /\ (b = <<>>) <=> (Defined(airplanes) = {})
                /\ b # <<>> =>
                      /\ b[1] \in Defined(airplanes)
                      /\ b[2] = airplanes[b[1]]
                      /\ \A k \in Defined(airplanes) :
                            b[2].kilo_distance >= airplanes[k].kilo_distance

C4_Witness ==
    \E h \in Handlers :
        /\ hpc[h] = "responded"
        /\ resp[h].op = "furthest"
        /\ resp[h].body # <<>>
        /\ \E k \in Defined(airplanes) :
              airplanes[k].kilo_distance < resp[h].body[2].kilo_distance

\* C5: in every step, a field of a tracked airplane takes the value of the
\* report being merged if that report is for this airplane and carries the
\* field, and otherwise keeps its value (unknown for a new airplane); so
\* after any sequence of reports each field holds the last value reported
\* for it.
C5_FieldWiseLastWriteWins ==
    [][\A k \in DOMAIN airplanes' : \A f \in Fields :
          airplanes'[k][f] =
              IF ipc = "action" /\ frame.icao = k /\ FieldOf(frame.kind) = f
              THEN frame.val
              ELSE IF k \in DOMAIN airplanes THEN airplanes[k][f] ELSE None]_vars

C5_Witness ==
    /\ ipc = "read"
    /\ 1 \in DOMAIN airplanes
    /\ airplanes[1].callsign = 2
    /\ airplanes[1].position = 1
    /\ airplanes[1].speed = 2

\* C6: the sweep leaves no airplane whose last update is more than 120
\* seconds old, and keeps, unchanged, every airplane whose last update is at
\* most 120 seconds old.
C6_Sweep ==
    [][(ipc = "prune" /\ ipc' = "read") =>
          /\ \A k \in DOMAIN airplanes' : now - airplanes'[k].last_time <= 120
          /\ \A k \in DOMAIN airplanes :
                now - airplanes[k].last_time <= 120 =>
                    (k \in DOMAIN airplanes' /\ airplanes'[k] = airplanes[k])]_vars

C6_Witness ==
    /\ ipc = "prune"
    /\ \E k \in DOMAIN airplanes : now - airplanes[k].last_time > 120
    /\ \E k \in DOMAIN airplanes : now - airplanes[k].last_time <= 120

\* C7: while a handler holds its answer the ingestion loop is not inside an
\* upsert, and every airplane in the answer is the registry's airplane.
C7_NoHalfMerged ==
    \A h \in Handlers :
        hpc[h] = "responded" =>
            /\ ipc \notin {"action", "action_refresh", "prune"}
            /\ resp[h].op = "airplanes" => resp[h].body = airplanes
            /\ (resp[h].op \in {"closest", "furthest"} /\ resp[h].body # <<>>) =>
                  resp[h].body[2] = airplanes[resp[h].body[1]]
            /\ (resp[h].op = "icao" /\ resp[h].body # <<>>) =>
                  resp[h].body[1] = airplanes[FromStr(resp[h].arg)]

C7_Witness ==
    /\ ipc = "lock"
    /\ frame.icao \in DOMAIN airplanes
    /\ \E h \in Handlers :
          /\ hpc[h] = "responded"
          /\ resp[h].op = "airplanes"
          /\ \E g \in Handlers : hpc[g] = "wait"

\* C8: a lookup of a well-formed identifier that is not a key of the registry
\* is answered with a not-found client error.
C8_AbsentIsNotFound ==
    \A h \in Handlers :
        (/\ hpc[h] = "responded"
         /\ resp[h].op = "icao"
         /\ FromStr(resp[h].arg) \notin DOMAIN airplanes) =>
            resp[h].status \in ClientError

\* C9: outside an upsert, the distance of every tracked airplane is undefined
\* if it has no position and otherwise is the distance function of its
\* position and the observer.
C9_Distance ==
    ipc # "action_refresh" =>
        \A k \in DOMAIN airplanes :
            airplanes[k].kilo_distance =
                IF airplanes[k].position = None THEN None
                ELSE KiloDistance(airplanes[k].position, ObserverPos)

C9_Witness ==
    /\ ipc = "read"
    /\ \E k \in DOMAIN airplanes :
          /\ airplanes[k].position = None
          /\ airplanes[k].kilo_distance = None
    /\ \E k \in DOMAIN airplanes :
          /\ airplanes[k].position # None
          /\ airplanes[k].kilo_distance = KiloDistance(airplanes[k].position, ObserverPos)
          /\ airplanes[k].last_time < now

InUpsert == ipc \in {"action", "action_refresh", "prune"}

\* C11: once the connection attempt has failed nothing happens any more: the
\* loop is not entered, the registry stays empty and no handler takes a step.
C11_ConnectFailureIsFatal ==
    [][/\ ipc = "connect_failed" =>
             UNCHANGED <<airplanes, ipc, input, frame, holders, hpc, resp>>
       /\ ipc' = "connect_failed" => airplanes' = <<>>]_vars

C11_Witness ==
    /\ ipc = "connect_failed"
    /\ airplanes = <<>>
    /\ \E h \in Handlers : hpc[h] = "responded"

\* C12: no step of a handler, and no step taken while a handler holds the
\* lock, changes the registry.
C12_QueriesReadOnly ==
    [][((\E h \in Handlers : hpc'[h] # hpc[h]) \/ holders \cap Handlers # {}) =>
          airplanes' = airplanes]_vars

C12_Witness ==
    \E h \in Handlers :
        /\ hpc[h] = "responded"
        /\ resp[h].op = "home"
        /\ resp[h].body = NumIcaos
        /\ ipc = "lock"

\* C13: at most one activity holds the registry lock, and an activity is
\* inside a registry operation exactly while it holds it.
C13_MutualExclusion ==
    /\ Cardinality(holders) <= 1
    /\ InUpsert <=> Ingest \in holders
    /\ \A h \in Handlers : hpc[h] \in {"locked", "responded"} <=> h \in holders

C13_Witness ==
    /\ ipc = "action_refresh"
    /\ holders = {Ingest}
    /\ \A h \in Handlers : hpc[h] = "wait"
    /\ airplanes[frame.icao].position # None

\* the scheduling the claim assumes: a task that can run does run, and a task
\* waiting for the lock gets it if the lock is free again and again
Fairness ==
    /\ WF_vars(ProcessLine)
    /\ SF_vars(IngestLock)
    /\ WF_vars(ActionMerge)
    /\ WF_vars(ActionRefresh)
    /\ WF_vars(PruneStep)
    /\ \A h \in Handlers :
          /\ SF_vars(Acquire(h))
          /\ WF_vars(Home(h) \/ AirplanesAll(h) \/ ClosestAirplane(h)
                        \/ FurthestAirplane(h) \/ AirplaneIcao(h))
          /\ WF_vars(Release(h))
          /\ WF_vars(Aborted(h))

FairSpec == Spec /\ Fairness

Connected == ipc \notin {"connect", "connect_failed", "panicked"}

\* C14: with the feed connected and fair scheduling, every decoded report is
\* applied to the registry and every request gets its response.
C14_Progress ==
    /\ (ipc = "lock") ~> (ipc = "prune")
    /\ \A h \in Handlers :
          (hpc[h] = "wait" /\ Connected) ~> (hpc[h] = "responded")

\* with the same scheduling nobody waits for the lock for ever
LockProgress ==
    /\ (ipc = "lock") ~> (ipc = "prune")
    /\ \A h \in Handlers :
          (hpc[h] = "wait" /\ Connected) ~> (hpc[h] \in {"responded", "panicked"})

Age(k) == now - airplanes[k].last_time

\* the causes for which the loop body drops a line that could be sliced
Dropped(s) ==
    \/ StripFraming(s) = <<>>
    \/ ~HexDecodable(StripFraming(s))
    \/ AllZero(HexDecode(StripFraming(s)))
    \/ ~FrameDecodable(HexDecode(StripFraming(s)))

\* C15: the identifiers of the registry change only inside an upsert or a
\* sweep; an identifier is removed only by the sweep that follows a decoded
\* frame; every upsert is followed by exactly one sweep and the sweep runs
\* nowhere else.
C15_SweepOnlyAfterDecode ==
    [][/\ DOMAIN airplanes' # DOMAIN airplanes => ipc \in {"action", "prune"}
       /\ (DOMAIN airplanes \ DOMAIN airplanes' # {}) =>
             (ipc = "prune" /\ frame # NoFrame)
       /\ ipc = "action_refresh" => ipc' = "prune"
       /\ ipc' = "prune" => ipc = "action_refresh"
       /\ ipc = "prune" => ipc' = "read"]_vars

C15_Witness ==
    /\ ipc = "parse"
    /\ LineOutcome(input) = "skip"
    /\ \E k \in DOMAIN airplanes : Age(k) > 120

\* C16: a line whose payload is empty, is not hex, is all zero or is rejected
\* by the decoder takes the loop back to the read with the registry and the
\* lock untouched.
C16_SkippedLineNoEffect ==
    [][(/\ ipc = "parse"
        /\ ValidUtf8(input)
        /\ Len(input) >= 3
        /\ IsCharBoundary(input, 1)
        /\ IsCharBoundary(input, Len(input) - 2)
        /\ Dropped(input)) =>
          (/\ ipc' = "read"
           /\ airplanes' = airplanes
           /\ holders' = holders
           /\ evicted' = evicted)]_vars

C16_Witness ==
    /\ ipc = "parse"
    /\ input = <<"*", ";", "LF">>
    /\ \E k \in DOMAIN airplanes : Age(k) > 120

\* C17: the upsert sets last_time of the reported airplane to the current
\* time, whatever the report carries, and the sweep of the same pass keeps
\* that airplane.
C17_LastUpdateRefreshed ==
    [][/\ ipc = "action_refresh" => airplanes'[frame.icao].last_time = now
       /\ (ipc = "prune" /\ ipc' = "read") =>
             (/\ frame.icao \in DOMAIN airplanes'
              /\ airplanes'[frame.icao].last_time = now')]_vars

C17_Witness ==
    /\ ipc = "prune"
    /\ frame.kind = "identification"
    /\ airplanes[frame.icao].position # None
    /\ airplanes[frame.icao].last_time = now
    /\ now >= 120

\* C18: the first report for an address after its eviction creates the
\* airplane anew: the reported field has the reported value, every other
\* field and the distance are unknown, and the distance stays undefined
\* while the position is unknown.
C18_FreshAfterEviction ==
    [][/\ (ipc = "action" /\ frame.icao \in evicted) =>
             (/\ frame.icao \notin DOMAIN airplanes
              /\ \A f \in Fields :
                    airplanes'[frame.icao][f] =
                        IF FieldOf(frame.kind) = f THEN frame.val ELSE None
              /\ airplanes'[frame.icao].kilo_distance = None)
       /\ (ipc = "action_refresh" /\ airplanes[frame.icao].position = None) =>
             airplanes'[frame.icao].kilo_distance = None]_vars

C18_Witness ==
    /\ ipc = "action"
    /\ frame.icao \in evicted
    /\ frame.kind = "velocity"

C20_EndOfStream ==
    [][closed =>
          (/\ closed'
           /\ ipc' \in {"read", "parse"}
           /\ airplanes' = airplanes
           /\ evicted' = evicted
           /\ holders' = holders)]_vars

C20_Witness ==
    /\ closed
    /\ ipc = "parse"
    /\ input = <<>>
    /\ \E k \in DOMAIN airplanes : Age(k) > 120

====
